---- MODULE Spec2Model ----
(***************************************************************************)
(* A state-machine model of the CustomTextInput component                  *)
(* (src/src/CustomTextInput.tsx): the OTP cell engine (cell array, focused *)
(* index, refs, deferred focus timers) and the split-field edit handler.   *)
(*                                                                         *)
(* Strings are sequences of one-character strings.  A cell index i of the  *)
(* source (0-based) is position i + 1 of the TLA+ sequence otpValues.      *)
(* Every handler is one action: the handler's body, then React's commit of *)
(* the state it set (the re-render attaches the ref objects that exist at  *)
(* render time), then the effects whose dependencies changed.              *)
(* The host framework is modelled by nativeFocus (the cell that holds the  *)
(* native focus) and events (focus / blur events on their way to the       *)
(* onFocus / onBlur handlers, delivered in order).                         *)
(***************************************************************************)
EXTENDS Integers, Sequences, FiniteSets, TLC

VARIABLES
    phase,            \* "rendered" (first render done), "mounted", "thrown",
                      \* "unmounted"
    type,             \* prop type
    otpLength,        \* prop otpLength, a number [whole, half]
    otpValue,         \* prop otpValue (the seed)
    otpAutoFocus,     \* prop otpAutoFocus
    viewProps,        \* the props that only the rendering reads
    fieldProps,       \* prop splitFields: the descriptors' optional settings
    splitFields,      \* prop splitFields: the sequence of the descriptors' keys
    splitValues,      \* prop splitValues: key -> string
    otpValues,        \* state otpValues (the cell array)
    otpFocusedIndex,  \* state otpFocusedIndex
    isFocused,        \* state isFocused (plain input)
    splitFocusedKey,  \* state splitFocusedKey
    otpRefs,          \* number of ref objects in otpRefs.current
    attachedRefs,     \* refs 0 .. attachedRefs-1 are attached to a rendered field
    nativeFocus,      \* host: index of the cell holding the focus, or -1
    events,           \* host: focus / blur events not yet handled
    timers,           \* pending 50 ms timeouts of handleOtpPaste, oldest first
    autoFocusTimer,   \* the 100 ms auto-focus timeout is pending
    otpChangeCalls,   \* onOtpChange invocations of the last step (arguments)
    splitChangeCalls, \* onSplitChange invocations of the last step
    warnings,         \* console.warn calls of the last step
    lastOp            \* the last step: handler name and its arguments

vars == <<phase, type, otpLength, otpValue, otpAutoFocus, viewProps,
          fieldProps, splitFields, splitValues, otpValues, otpFocusedIndex,
          isFocused, splitFocusedKey, otpRefs, attachedRefs,
          nativeFocus, events, timers, autoFocusTimer, otpChangeCalls,
          splitChangeCalls, warnings, lastOp>>

-----------------------------------------------------------------------------
(* Bounds of the model *)

\* largest otpLength of the interactive specifications
MaxLen == 3
\* longest text a change event carries
MaxText == 2
\* longest otpValue seed
MaxSeed == 4
\* most paste timeouts pending at once
MaxTimers == 1
\* most host events in flight
MaxEvents == 2

\* validateOtpLength: length <= 20
MaxOtpLength == 20

Digits == {"5", "6"}
Space == " "
InputChars == Digits \cup {Space}
SplitKeys == {"mm", "dd"}
SplitTexts == {<<>>, <<"0", "7">>, <<"1", "5">>}

SeqsUpTo(S, n) == UNION {[1..k -> S] : k \in 0..n}
Min(a, b) == IF a < b THEN a ELSE b

-----------------------------------------------------------------------------
(* Numbers: otpLength is a JavaScript number; whole + 1/2 when half. *)

Num(k) == [whole |-> k, half |-> FALSE]
Half(k) == [whole |-> k, half |-> TRUE]

NumberIsInteger(n) == ~n.half

validateOtpLength(length) ==
    NumberIsInteger(length) /\ length.whole >= 1 /\ length.whole <= MaxOtpLength

validateOtpValue(value, maxLength) ==
    \/ Len(value) < maxLength.whole
    \/ Len(value) = maxLength.whole

\* new Array(n) raises RangeError unless n is a non-negative integer
ArrayLengthOk(n) == NumberIsInteger(n) /\ n.whole >= 0

\* the configured length of a component that rendered
OtpLen == otpLength.whole

-----------------------------------------------------------------------------
(* JavaScript arrays of cell values *)

\* an array hole / undefined element
Undefined == <<"undefined">>
EmptyString == <<>>

Falsy(v) == v = EmptyString \/ v = Undefined

\* new Array(n).fill("")
EmptyCells(n) == [k \in 1..n |-> EmptyString]

\* values[index] = v on a copy; a write past the end leaves holes
SetAt(values, index, v) ==
    IF index + 1 <= Len(values)
    THEN [values EXCEPT ![index + 1] = v]
    ELSE [k \in 1..(index + 1) |->
            IF k <= Len(values) THEN values[k]
            ELSE IF k = index + 1 THEN v ELSE Undefined]

\* values.join(""): undefined elements join as the empty string
RECURSIVE Join(_)
Join(values) ==
    IF values = <<>> THEN <<>>
    ELSE (IF Head(values) = Undefined THEN <<>> ELSE Head(values))
         \o Join(Tail(values))

\* otpValues[index] || "": what cell index shows
Cell(values, index) ==
    IF index + 1 <= Len(values) /\ ~Falsy(values[index + 1])
    THEN values[index + 1] ELSE EmptyString

-----------------------------------------------------------------------------
(* The pure parts of the OTP handlers *)

\* mutant: the whitespace is not removed
CleanedTextKeepsSpaces(pastedText) == pastedText

\* pastedText.replace(/\s/g, "")
RECURSIVE CleanedText(_)
CleanedText(pastedText) ==
    IF pastedText = <<>> THEN <<>>
    ELSE IF Head(pastedText) = Space THEN CleanedText(Tail(pastedText))
    ELSE <<Head(pastedText)>> \o CleanedText(Tail(pastedText))

\* handleOtpChange, single character: newValues[index] = text
ChangeValues(values, text, index) == SetAt(values, index, text)

\* handleOtpPaste: iteration i of the distribution loop and those after it
RECURSIVE PasteFrom(_, _, _, _, _)
PasteFrom(values, cleanedText, currentIndex, length, i) ==
    IF i < Len(cleanedText) /\ currentIndex + i < length
    THEN PasteFrom(SetAt(values, currentIndex + i, <<cleanedText[i + 1]>>),
                   cleanedText, currentIndex, length, i + 1)
    ELSE values

\* mutant: the distribution starts at cell 0 instead of the pasted cell
PasteValuesFromStart(values, cleanedText, currentIndex, length) ==
    PasteFrom(values, cleanedText, 0, length, 0)

\* mutant: the distribution does not stop at the last cell
PasteValuesPastEnd(values, cleanedText, currentIndex, length) ==
    PasteFrom(values, cleanedText, currentIndex,
              currentIndex + Len(cleanedText), 0)

\* handleOtpPaste: newValues after the distribution loop
PasteValues(values, cleanedText, currentIndex, length) ==
    PasteFrom(values, cleanedText, currentIndex, length, 0)

\* handleOtpPaste: nextFocusIndex from iteration i on
RECURSIVE LastWrittenFrom(_, _, _, _, _)
LastWrittenFrom(nextFocusIndex, cleanedText, currentIndex, length, i) ==
    IF i < Len(cleanedText) /\ currentIndex + i < length
    THEN LastWrittenFrom(currentIndex + i, cleanedText, currentIndex, length, i + 1)
    ELSE nextFocusIndex

\* handleOtpPaste: nextFocusIndex after the distribution loop
NextFocusIndex(cleanedText, currentIndex, length) ==
    LastWrittenFrom(currentIndex, cleanedText, currentIndex, length, 0)

\* newValues.findIndex((value, index) => !value && index > nextFocusIndex)
NextEmptyIndex(newValues, nextFocusIndex) ==
    LET found == {index \in 0..(Len(newValues) - 1) :
                     Falsy(newValues[index + 1]) /\ index > nextFocusIndex}
    IN  IF found = {} THEN -1
        ELSE CHOOSE index \in found : \A other \in found : index <= other

\* handleOtpPaste: the timeout it schedules
PasteTimer(newValues, nextFocusIndex, length) ==
    LET nextEmptyIndex == NextEmptyIndex(newValues, nextFocusIndex)
    IN  IF nextEmptyIndex # -1
        THEN [kind |-> "focus", index |-> nextEmptyIndex]
        ELSE IF nextFocusIndex + 1 < length
        THEN [kind |-> "focus", index |-> nextFocusIndex + 1]
        ELSE [kind |-> "blur", index |-> nextFocusIndex]

\* mutant: the copy loop stops one character early
SeedValuesShort(value, length) ==
    [k \in 1..length |-> IF k < Len(value) THEN <<value[k]>> ELSE EmptyString]

\* the seed effect: newValues filled from otpValue
SeedValues(value, length) ==
    [k \in 1..length |-> IF k <= Len(value) THEN <<value[k]>> ELSE EmptyString]

\* mutant: a seed of any length is applied
SeedAppliesAnyLength(value, length) == value # <<>>

\* mutant: the empty otpValue is applied as well
SeedAppliesEmpty(value, length) == Len(value) <= length

\* the seed effect's condition: otpValue && otpValue.length <= otpLength
SeedApplies(value, length) == value # <<>> /\ Len(value) <= length

\* mutant: Backspace moves back from a non-empty cell too
KeyPressTargetAnyCell(values, key, index) ==
    IF key = "Backspace" /\ index > 0 THEN index - 1 ELSE -1

\* handleOtpKeyPress: the cell a key press moves the focus to, or -1
KeyPressTarget(values, key, index) ==
    IF key = "Backspace" /\ Falsy(Cell(values, index)) /\ index > 0
    THEN index - 1 ELSE -1

\* handleOtpFocus: the new otpFocusedIndex
FocusedIndexOnFocus(current, index, length) ==
    IF index >= 0 /\ index < length THEN index ELSE current

\* useState(otpAutoFocus ? 0 : -1)
InitialFocusedIndex(autoFocus) == IF autoFocus THEN 0 ELSE -1

-----------------------------------------------------------------------------
(* The split handlers *)

Keys(fields) == {fields[k] : k \in 1..Len(fields)}

BlankKey(key) == key = "" \/ key = " "

\* a key that is not a string: the number 7, written as a token of its own
NumberKey == "7 (number)"

\* typeof field.key === "string"
IsStringKey(key) == key # NumberKey

\* mutant: only the emptiness of the list is checked
validateSplitFieldsNonEmpty(fields) == Len(fields) # 0

validateSplitFields(fields) ==
    /\ Len(fields) # 0
    /\ Cardinality(Keys(fields)) = Len(fields)
    /\ \A k \in 1..Len(fields) : IsStringKey(fields[k]) /\ ~BlankKey(fields[k])

\* mutant: the key is not looked up among the descriptors
FindSplitFieldAnyKey(fields, key) == TRUE

\* splitFields.find((field) => field.key === key) finds a descriptor
FindSplitField(fields, key) == key \in Keys(fields)

\* mutant: the current map is not spread into the new one
SplitNewValuesOnlyKey(values, key, text) == [k \in {key} |-> text]

\* { ...splitValues, [key]: text }
SplitNewValues(values, key, text) ==
    [k \in (DOMAIN values) \cup {key} |-> IF k = key THEN text ELSE values[k]]

-----------------------------------------------------------------------------
(* The host: native focus and the events it sends *)

FocusEvent(index) == [kind |-> "focus", index |-> index]
BlurEvent(index) == [kind |-> "blur", index |-> index]

\* ref.focus() on cell index: the cell takes the focus, the cell that held
\* it is blurred; the two events reach the handlers in either order
FocusOutcomes(index, focus, queue) ==
    IF focus = index THEN {[nativeFocus |-> focus, events |-> queue]}
    ELSE IF focus = -1
    THEN {[nativeFocus |-> index, events |-> Append(queue, FocusEvent(index))]}
    ELSE {[nativeFocus |-> index,
           events |-> queue \o <<BlurEvent(focus), FocusEvent(index)>>],
          [nativeFocus |-> index,
           events |-> queue \o <<FocusEvent(index), BlurEvent(focus)>>]}

\* ref.blur() on cell index: only the cell that holds the focus loses it
BlurOutcomes(index, focus, queue) ==
    IF focus = index /\ focus # -1
    THEN {[nativeFocus |-> -1, events |-> Append(queue, BlurEvent(index))]}
    ELSE {[nativeFocus |-> focus, events |-> queue]}

NoChange(focus, queue) == {[nativeFocus |-> focus, events |-> queue]}

\* otpRefs.current[index]?.current is a mounted field
RefUsable(index) == index >= 0 /\ index < otpRefs /\ index < attachedRefs

\* otpRefs.current[index]?.current?.focus()
RefFocus(index) ==
    IF RefUsable(index) THEN FocusOutcomes(index, nativeFocus, events)
    ELSE NoChange(nativeFocus, events)

\* otpRefs.current[index]?.current?.blur()
RefBlur(index) ==
    IF RefUsable(index) THEN BlurOutcomes(index, nativeFocus, events)
    ELSE NoChange(nativeFocus, events)

\* a render passes ref={otpRefs.current[index]} to the cells index < length
RenderedRefs(length, refs) == Min(length, refs)

-----------------------------------------------------------------------------
(* Effects *)

\* default of the prop otpLength
DefaultOtpLength == 6

\* the validation effect's console.warn calls
ValidationWarnings(t, length, value, fields) ==
    IF t = "otp"
    THEN (IF validateOtpLength(length) THEN <<>> ELSE <<"otpLength">>)
         \o (IF value # <<>> /\ ~validateOtpValue(value, length)
             THEN <<"otpValue">> ELSE <<>>)
    ELSE IF t = "split"
    THEN (IF Len(fields) # 0 /\ Cardinality(Keys(fields)) # Len(fields)
          THEN <<"splitUniqueKeys">> ELSE <<>>)
         \o (IF validateSplitFields(fields) THEN <<>> ELSE <<"splitFields">>)
    ELSE <<>>

\* The commit of a render with otpLength = length while otpRefs.current holds
\* refs ref objects, then the effect "Initialize OTP refs": the refs are
\* resized to length, and a seed that applies sets the cell array, whose
\* re-render attaches every ref.
InitOtpEffect(length, value, values, refs) ==
    IF SeedApplies(value, length)
    THEN [otpValues |-> SeedValues(value, length), otpRefs |-> length,
          attachedRefs |-> RenderedRefs(length, length)]
    ELSE [otpValues |-> values, otpRefs |-> length,
          attachedRefs |-> RenderedRefs(length, refs)]

Op(name, index, text, key) ==
    [name |-> name, index |-> index, text |-> text, key |-> key]

NoMap == [k \in {} |-> <<>>]

-----------------------------------------------------------------------------
(* The props read by the rendering only.  An optional value is <<>> when   *)
(* it is not given (undefined) and <<v>> when it is v; a style prop is     *)
(* TRUE when the caller passes a style object.                             *)

Unset == <<>>
Given(v) == <<v>>

\* the defaults of the destructuring
DefaultViewProps ==
    [secureTextEntry |-> FALSE,
     keyboardType |-> "default",
     autoCapitalize |-> "none",
     editable |-> TRUE,
     maxLength |-> Unset,
     error |-> FALSE,
     inputContainerStyle |-> FALSE,
     focusedInputContainerStyle |-> FALSE,
     disabledInputContainerStyle |-> FALSE,
     otpInputContainerStyle |-> FALSE,
     otpFocusedInputContainerStyle |-> FALSE,
     splitInputContainerStyle |-> FALSE,
     splitFocusedInputContainerStyle |-> FALSE,
     disabledInputStyle |-> FALSE,
     splitInputStyle |-> FALSE,
     splitFocusedInputStyle |-> FALSE,
     onFocus |-> FALSE,
     onBlur |-> FALSE]

\* the props with some of them given by the caller
ViewPropsWith(given) ==
    [name \in DOMAIN DefaultViewProps |->
        IF name \in DOMAIN given THEN given[name] ELSE DefaultViewProps[name]]

\* a SplitField that gives its key only
KeyOnlyField ==
    [keyboardType |-> Unset,
     autoCapitalize |-> Unset,
     maxLength |-> Unset,
     secureTextEntry |-> Unset,
     editable |-> Unset]

KeyOnlyFields(fields) == [k \in 1..Len(fields) |-> KeyOnlyField]

\* a component whose rendering props are the defaults
DefaultView(fields) ==
    /\ viewProps = DefaultViewProps
    /\ fieldProps = KeyOnlyFields(fields)

-----------------------------------------------------------------------------
(* Rendering: the style list of an input container.  A style fragment is   *)
(* named by the expression the source pushes.                              *)

StyleIf(condition, fragment) == IF condition THEN <<fragment>> ELSE <<>>

\* [base, override ?? {}].filter(Boolean): {} is truthy and stays
BaseStyle(base, given, override) == <<base, IF given THEN override ELSE "{}">>

\* style.push(overlay); if (override) style.push(override)
OverlayStyle(condition, overlay, given, override) ==
    IF condition THEN <<overlay>> \o StyleIf(given, override) ELSE <<>>

getOtpInputContainerStyle(index) ==
    BaseStyle("styles.otpInputContainer",
              viewProps.otpInputContainerStyle, "otpInputContainerStyle")
    \o OverlayStyle(otpFocusedIndex = index, "styles.otpFocusedInputContainer",
                    viewProps.otpFocusedInputContainerStyle,
                    "otpFocusedInputContainerStyle")
    \o OverlayStyle(~viewProps.editable, "styles.disabledInputContainer",
                    viewProps.disabledInputContainerStyle,
                    "disabledInputContainerStyle")
    \o StyleIf(viewProps.error, "styles.errorInputContainer")

\* field is the position of the descriptor in splitFields
getSplitInputContainerStyle(field) ==
    BaseStyle("styles.splitInputContainer",
              viewProps.splitInputContainerStyle, "splitInputContainerStyle")
    \o OverlayStyle(splitFocusedKey = splitFields[field],
                    "styles.splitFocusedInputContainer",
                    viewProps.splitFocusedInputContainerStyle,
                    "splitFocusedInputContainerStyle")
    \o OverlayStyle(fieldProps[field].editable = Given(FALSE),
                    "styles.disabledInputContainer",
                    viewProps.disabledInputContainerStyle,
                    "disabledInputContainerStyle")
    \o StyleIf(viewProps.error, "styles.errorInputContainer")

getSplitInputStyle(field) ==
    BaseStyle("styles.splitInput", viewProps.splitInputStyle, "splitInputStyle")
    \o StyleIf(splitFocusedKey = splitFields[field]
                 /\ viewProps.splitFocusedInputStyle,
               "splitFocusedInputStyle")
    \o OverlayStyle(fieldProps[field].editable = Given(FALSE),
                    "styles.disabledInput",
                    viewProps.disabledInputStyle,
                    "disabledInputStyle")

getInputContainerStyle ==
    BaseStyle("styles.inputContainer",
              viewProps.inputContainerStyle, "inputContainerStyle")
    \o OverlayStyle(isFocused, "styles.focusedInputContainer",
                    viewProps.focusedInputContainerStyle,
                    "focusedInputContainerStyle")
    \o OverlayStyle(~viewProps.editable, "styles.disabledInputContainer",
                    viewProps.disabledInputContainerStyle,
                    "disabledInputContainerStyle")
    \o StyleIf(viewProps.error, "styles.errorInputContainer")

\* field.x || x for a string setting: an unset or empty value is falsy
OrString(setting, groupValue) ==
    IF setting # Unset /\ setting[1] # "" THEN setting[1] ELSE groupValue

\* field.x || x for a boolean setting: unset and false are falsy
OrBoolean(setting, groupValue) ==
    IF setting # Unset /\ setting[1] THEN setting[1] ELSE groupValue

\* renderSplitInputs: the props of the TextInput of the descriptor at
\* position field (maxLength is passed as the descriptor gives it)
SplitCellProps(field) ==
    [keyboardType |-> OrString(fieldProps[field].keyboardType,
                               viewProps.keyboardType),
     autoCapitalize |-> OrString(fieldProps[field].autoCapitalize,
                                 viewProps.autoCapitalize),
     maxLength |-> fieldProps[field].maxLength,
     secureTextEntry |-> OrBoolean(fieldProps[field].secureTextEntry,
                                   viewProps.secureTextEntry),
     editable |-> IF fieldProps[field].editable # Unset
                  THEN fieldProps[field].editable[1]
                  ELSE viewProps.editable]

\* the OTP cells the render produces: Array.from({ length: otpLength })
RenderedOtpCells ==
    IF phase \in {"rendered", "mounted"} /\ type = "otp"
    THEN 0..(OtpLen - 1) ELSE {}

\* renderOtpInputs: the props of the TextInput of cell index
OtpCellProps(index) ==
    [value |-> Cell(otpValues, index),
     maxLength |-> OtpLen,
     keyboardType |-> "numeric",
     editable |-> viewProps.editable,
     secureTextEntry |-> viewProps.secureTextEntry]

\* the split cells the render produces: one per descriptor
RenderedSplitCells ==
    IF phase \in {"rendered", "mounted"} /\ type = "split"
    THEN 1..Len(splitFields) ELSE {}

\* the style lists of the input containers the render produces
RenderedContainerStyles ==
    IF phase \notin {"rendered", "mounted"} THEN {}
    ELSE IF type = "otp"
    THEN {getOtpInputContainerStyle(index) : index \in 0..(OtpLen - 1)}
    ELSE IF type = "split"
    THEN {getSplitInputContainerStyle(field) : field \in 1..Len(splitFields)}
    ELSE {getInputContainerStyle}

-----------------------------------------------------------------------------
(* Construction: the first render *)

SeedChars == {"5"}
Seeds == SeqsUpTo(SeedChars, MaxSeed)
Texts == SeqsUpTo(InputChars, MaxText)
CellStrings == {EmptyString} \cup {<<c>> : c \in Digits}
SplitConfigs == SeqsUpTo(SplitKeys, 2)
ValueKeys == SplitKeys \cup {"yy"}
SplitMaps == UNION {[D -> SplitTexts] : D \in SUBSET ValueKeys}

Construct(t, length, value, autoFocus, fields, values) ==
    /\ type = t
    /\ otpLength = length
    /\ otpValue = value
    /\ otpAutoFocus = autoFocus
    /\ splitFields = fields
    /\ splitValues = values
    /\ phase = IF ArrayLengthOk(length) THEN "rendered" ELSE "thrown"
    /\ otpValues = IF ArrayLengthOk(length) THEN EmptyCells(length.whole) ELSE <<>>
    /\ otpFocusedIndex = InitialFocusedIndex(autoFocus)
    /\ isFocused = FALSE
    /\ splitFocusedKey = ""
    /\ otpRefs = 0
    /\ attachedRefs = 0
    /\ nativeFocus = -1
    /\ events = <<>>
    /\ timers = <<>>
    /\ autoFocusTimer = FALSE
    /\ otpChangeCalls = <<>>
    /\ splitChangeCalls = <<>>
    /\ warnings = <<>>
    /\ lastOp = Op("render", -1, <<>>, "")

\* an OTP component of one of the lengths and seeds
InitOtp(Lengths, Values) ==
    \E length \in Lengths, value \in Values, autoFocus \in BOOLEAN :
       /\ Construct("otp", length, value, autoFocus, <<>>, NoMap)
       /\ DefaultView(<<>>)

\* a split component of one of the descriptor lists; the OTP props are defaults
InitSplit(Configs) ==
    \E fields \in Configs, values \in SplitMaps :
       /\ Construct("split", Num(DefaultOtpLength), <<>>, TRUE, fields, values)
       /\ DefaultView(fields)

ValidLengths == {Num(k) : k \in 1..MaxLen}

Init == InitOtp(ValidLengths, Seeds) \/ InitSplit(SplitConfigs)

-----------------------------------------------------------------------------
(* Actions *)

props == <<type, otpLength, otpValue, otpAutoFocus, splitFields, splitValues,
           viewProps, fieldProps>>

\* the effects of the first commit, in the order of the source
MountEffects ==
    /\ phase = "rendered"
    /\ phase' = "mounted"
    /\ warnings' = ValidationWarnings(type, otpLength, otpValue, splitFields)
    /\ IF type = "otp"
       THEN LET e == InitOtpEffect(OtpLen, otpValue, otpValues, otpRefs)
            IN  /\ otpValues' = e.otpValues
                /\ otpRefs' = e.otpRefs
                /\ attachedRefs' = e.attachedRefs
                /\ autoFocusTimer' = (otpAutoFocus /\ e.otpRefs >= 1)
       ELSE UNCHANGED <<otpValues, otpRefs, attachedRefs, autoFocusTimer>>
    /\ lastOp' = Op("mount", -1, <<>>, "")
    /\ otpChangeCalls' = <<>>
    /\ splitChangeCalls' = <<>>
    /\ UNCHANGED <<isFocused, splitFocusedKey>>
    /\ UNCHANGED <<props, otpFocusedIndex, nativeFocus, events, timers>>

\* the 100 ms timeout: otpRefs.current[0]?.current?.focus()
AutoFocusTimerFire ==
    /\ phase = "mounted"
    /\ autoFocusTimer
    /\ Len(events) + 2 <= MaxEvents
    /\ autoFocusTimer' = FALSE
    /\ \E o \in RefFocus(0) :
          nativeFocus' = o.nativeFocus /\ events' = o.events
    /\ lastOp' = Op("autoFocusTimer", 0, <<>>, "")
    /\ otpChangeCalls' = <<>>
    /\ splitChangeCalls' = <<>>
    /\ warnings' = <<>>
    /\ UNCHANGED <<isFocused, splitFocusedKey>>
    /\ UNCHANGED <<props, phase, otpValues, otpFocusedIndex, otpRefs,
                   attachedRefs, timers>>

handleOtpPaste(pastedText, currentIndex) ==
    LET cleanedText == CleanedText(pastedText)
        newValues == PasteValues(otpValues, cleanedText, currentIndex, OtpLen)
        nextFocusIndex == NextFocusIndex(cleanedText, currentIndex, OtpLen)
    IN  IF currentIndex < 0 \/ currentIndex >= OtpLen
        THEN /\ warnings' = <<"pasteIndex">>
             /\ otpChangeCalls' = <<>>
             /\ UNCHANGED <<otpValues, timers, attachedRefs>>
        ELSE IF cleanedText = <<>>
        THEN /\ warnings' = <<>>
             /\ otpChangeCalls' = <<>>
             /\ UNCHANGED <<otpValues, timers, attachedRefs>>
        ELSE /\ otpValues' = newValues
             /\ otpChangeCalls' = <<Join(newValues)>>
             /\ timers' = Append(timers,
                                 PasteTimer(newValues, nextFocusIndex, OtpLen))
             /\ attachedRefs' = RenderedRefs(OtpLen, otpRefs)
             /\ warnings' = <<>>

\* handleOtpChange called with (text, index)
OtpChangeCall(text, index) ==
    /\ phase = "mounted"
    /\ type = "otp"
    /\ (Len(text) > 1 /\ CleanedText(text) # <<>>) => Len(timers) < MaxTimers
    /\ lastOp' = Op("handleOtpChange", index, text, "")
    /\ splitChangeCalls' = <<>>
    /\ IF index < 0 \/ index >= OtpLen
       THEN /\ warnings' = <<"otpIndex">>
            /\ otpChangeCalls' = <<>>
            /\ UNCHANGED <<otpValues, timers, attachedRefs, nativeFocus, events>>
       ELSE IF Len(text) > 1
       THEN /\ handleOtpPaste(text, index)
            /\ UNCHANGED <<nativeFocus, events>>
       ELSE LET newValues == ChangeValues(otpValues, text, index)
            IN  /\ otpValues' = newValues
                /\ otpChangeCalls' = <<Join(newValues)>>
                /\ \E o \in (IF text # <<>> /\ index < OtpLen - 1
                             THEN RefFocus(index + 1)
                             ELSE NoChange(nativeFocus, events)) :
                      nativeFocus' = o.nativeFocus /\ events' = o.events
                /\ attachedRefs' = RenderedRefs(OtpLen, otpRefs)
                /\ warnings' = <<>>
                /\ UNCHANGED timers
    /\ UNCHANGED <<isFocused, splitFocusedKey>>
    /\ UNCHANGED <<props, phase, otpFocusedIndex, otpRefs, autoFocusTimer>>

\* onChangeText of cell index: the cell holds the focus, and maxLength
\* keeps the text to otpLength characters
handleOtpChange(text, index) ==
    /\ events = <<>>
    /\ nativeFocus = index
    /\ Len(text) <= OtpLen
    /\ OtpChangeCall(text, index)

KeyNames == {"Backspace", "5"}

\* handleOtpKeyPress called with (event, index); key is event.nativeEvent.key
OtpKeyPressCall(key, index) ==
    /\ phase = "mounted"
    /\ type = "otp"
    /\ lastOp' = Op("handleOtpKeyPress", index, <<>>, key)
    /\ otpChangeCalls' = <<>>
    /\ splitChangeCalls' = <<>>
    /\ IF index < 0 \/ index >= OtpLen
       THEN /\ warnings' = <<"keyPressIndex">>
            /\ UNCHANGED <<nativeFocus, events>>
       ELSE /\ warnings' = <<>>
            /\ LET target == KeyPressTarget(otpValues, key, index)
               IN  \E o \in (IF target # -1 THEN RefFocus(target)
                             ELSE NoChange(nativeFocus, events)) :
                      nativeFocus' = o.nativeFocus /\ events' = o.events
    /\ UNCHANGED <<isFocused, splitFocusedKey>>
    /\ UNCHANGED <<props, phase, otpValues, otpFocusedIndex, otpRefs,
                   attachedRefs, timers, autoFocusTimer>>

\* onKeyPress of cell index, which holds the focus
handleOtpKeyPress(key, index) ==
    /\ events = <<>>
    /\ nativeFocus = index
    /\ OtpKeyPressCall(key, index)

\* handleOtpFocus called with index
OtpFocusCall(index) ==
    /\ phase = "mounted"
    /\ LET next == FocusedIndexOnFocus(otpFocusedIndex, index, OtpLen)
       IN  /\ otpFocusedIndex' = next
           /\ attachedRefs' = IF next # otpFocusedIndex
                              THEN RenderedRefs(OtpLen, otpRefs)
                              ELSE attachedRefs
    /\ lastOp' = Op("handleOtpFocus", index, <<>>, "")
    /\ otpChangeCalls' = <<>>
    /\ splitChangeCalls' = <<>>
    /\ warnings' = <<>>
    /\ UNCHANGED <<isFocused, splitFocusedKey>>
    /\ UNCHANGED <<props, phase, otpValues, otpRefs, nativeFocus, timers,
                   autoFocusTimer>>

\* onFocus of a cell: the oldest host event is that cell's focus event
handleOtpFocus ==
    /\ events # <<>>
    /\ Head(events).kind = "focus"
    /\ events' = Tail(events)
    /\ OtpFocusCall(Head(events).index)

\* onBlur of a cell: the oldest host event is a blur event
handleOtpBlur ==
    /\ phase = "mounted"
    /\ events # <<>>
    /\ Head(events).kind = "blur"
    /\ otpFocusedIndex' = -1
    /\ attachedRefs' = IF otpFocusedIndex # -1
                       THEN RenderedRefs(OtpLen, otpRefs)
                       ELSE attachedRefs
    /\ lastOp' = Op("handleOtpBlur", Head(events).index, <<>>, "")
    /\ events' = Tail(events)
    /\ otpChangeCalls' = <<>>
    /\ splitChangeCalls' = <<>>
    /\ warnings' = <<>>
    /\ UNCHANGED <<isFocused, splitFocusedKey>>
    /\ UNCHANGED <<props, phase, otpValues, otpRefs, nativeFocus, timers,
                   autoFocusTimer>>

\* the user taps cell index
UserFocus(index) ==
    /\ phase = "mounted"
    /\ type = "otp"
    /\ index >= 0 /\ index < OtpLen
    /\ index # nativeFocus
    /\ Len(events) + 2 <= MaxEvents
    /\ \E o \in FocusOutcomes(index, nativeFocus, events) :
          nativeFocus' = o.nativeFocus /\ events' = o.events
    /\ lastOp' = Op("userFocus", index, <<>>, "")
    /\ otpChangeCalls' = <<>>
    /\ splitChangeCalls' = <<>>
    /\ warnings' = <<>>
    /\ UNCHANGED <<isFocused, splitFocusedKey>>
    /\ UNCHANGED <<props, phase, otpValues, otpFocusedIndex, otpRefs,
                   attachedRefs, timers, autoFocusTimer>>

\* the user dismisses the keyboard
UserBlur ==
    /\ phase = "mounted"
    /\ type = "otp"
    /\ nativeFocus # -1
    /\ Len(events) + 1 <= MaxEvents
    /\ \E o \in BlurOutcomes(nativeFocus, nativeFocus, events) :
          nativeFocus' = o.nativeFocus /\ events' = o.events
    /\ lastOp' = Op("userBlur", nativeFocus, <<>>, "")
    /\ otpChangeCalls' = <<>>
    /\ splitChangeCalls' = <<>>
    /\ warnings' = <<>>
    /\ UNCHANGED <<isFocused, splitFocusedKey>>
    /\ UNCHANGED <<props, phase, otpValues, otpFocusedIndex, otpRefs,
                   attachedRefs, timers, autoFocusTimer>>

\* the oldest 50 ms timeout of handleOtpPaste fires; nothing clears these
\* timeouts, so they fire after an unmount too
PasteTimerFire ==
    /\ phase \in {"mounted", "unmounted"}
    /\ timers # <<>>
    /\ Len(events) + 2 <= MaxEvents
    /\ LET timer == Head(timers)
       IN  /\ \E o \in (IF timer.kind = "focus" THEN RefFocus(timer.index)
                        ELSE RefBlur(timer.index)) :
                 nativeFocus' = o.nativeFocus /\ events' = o.events
           /\ lastOp' = Op("pasteTimer", timer.index, <<>>, timer.kind)
    /\ timers' = Tail(timers)
    /\ otpChangeCalls' = <<>>
    /\ splitChangeCalls' = <<>>
    /\ warnings' = <<>>
    /\ UNCHANGED <<isFocused, splitFocusedKey>>
    /\ UNCHANGED <<props, phase, otpValues, otpFocusedIndex, otpRefs,
                   attachedRefs, autoFocusTimer>>

\* the caller re-renders the component with otpValue = value; the effects
\* that depend on otpValue run when it changed
SetOtpValue(value) ==
    /\ phase = "mounted"
    /\ type = "otp"
    /\ otpValue' = value
    /\ IF value # otpValue
       THEN LET e == InitOtpEffect(OtpLen, value, otpValues, otpRefs)
            IN  /\ otpValues' = e.otpValues
                /\ otpRefs' = e.otpRefs
                /\ attachedRefs' = e.attachedRefs
                /\ warnings' = ValidationWarnings(type, otpLength, value,
                                                  splitFields)
       ELSE /\ attachedRefs' = RenderedRefs(OtpLen, otpRefs)
            /\ warnings' = <<>>
            /\ UNCHANGED <<otpValues, otpRefs>>
    /\ lastOp' = Op("setOtpValue", -1, value, "")
    /\ otpChangeCalls' = <<>>
    /\ splitChangeCalls' = <<>>
    /\ UNCHANGED <<viewProps, fieldProps, isFocused, splitFocusedKey>>
    /\ UNCHANGED <<type, otpLength, otpAutoFocus, splitFields, splitValues,
                   phase, otpFocusedIndex, nativeFocus, events, timers,
                   autoFocusTimer>>

\* onChangeText of the split cell of a configured field
handleSplitChange(key, text) ==
    /\ phase = "mounted"
    /\ type = "split"
    /\ lastOp' = Op("handleSplitChange", -1, text, key)
    /\ otpChangeCalls' = <<>>
    /\ IF ~FindSplitField(splitFields, key)
       THEN /\ warnings' = <<"splitKey">>
            /\ splitChangeCalls' = <<>>
       ELSE /\ warnings' = <<>>
            /\ splitChangeCalls' =
                  <<[values |-> SplitNewValues(splitValues, key, text),
                     key |-> key, value |-> text]>>
    /\ UNCHANGED <<isFocused, splitFocusedKey>>
    /\ UNCHANGED <<props, phase, otpValues, otpFocusedIndex, otpRefs,
                   attachedRefs, nativeFocus, events, timers, autoFocusTimer>>

\* the caller re-renders the component with splitValues = values
SetSplitValues(values) ==
    /\ phase = "mounted"
    /\ type = "split"
    /\ values # splitValues
    /\ splitValues' = values
    /\ lastOp' = Op("setSplitValues", -1, <<>>, "")
    /\ otpChangeCalls' = <<>>
    /\ splitChangeCalls' = <<>>
    /\ warnings' = <<>>
    /\ UNCHANGED <<viewProps, fieldProps, isFocused, splitFocusedKey>>
    /\ UNCHANGED <<type, otpLength, otpValue, otpAutoFocus, splitFields,
                   phase, otpValues, otpFocusedIndex, otpRefs, attachedRefs,
                   nativeFocus, events, timers, autoFocusTimer>>

\* onFocus of the split cell of the descriptor at position field
handleSplitFocus(field) ==
    /\ phase = "mounted"
    /\ type = "split"
    /\ field \in 1..Len(splitFields)
    /\ splitFocusedKey' = splitFields[field]
    /\ lastOp' = Op("handleSplitFocus", field - 1, <<>>, splitFields[field])
    /\ otpChangeCalls' = <<>>
    /\ splitChangeCalls' = <<>>
    /\ warnings' = <<>>
    /\ UNCHANGED <<props, phase, otpValues, otpFocusedIndex, isFocused, otpRefs,
                   attachedRefs, nativeFocus, events, timers, autoFocusTimer>>

\* onBlur of a split cell
handleSplitBlur ==
    /\ phase = "mounted"
    /\ type = "split"
    /\ splitFocusedKey' = ""
    /\ lastOp' = Op("handleSplitBlur", -1, <<>>, "")
    /\ otpChangeCalls' = <<>>
    /\ splitChangeCalls' = <<>>
    /\ warnings' = <<>>
    /\ UNCHANGED <<props, phase, otpValues, otpFocusedIndex, isFocused, otpRefs,
                   attachedRefs, nativeFocus, events, timers, autoFocusTimer>>

\* the plain input takes the focus: its onFocus prop is handleFocus unless
\* the caller's onFocus, spread after it with otherProps, replaces it; the
\* step is named by the function the field invokes
handleFocus ==
    /\ phase = "mounted"
    /\ type = "default"
    /\ isFocused' = IF viewProps.onFocus THEN isFocused ELSE TRUE
    /\ lastOp' = Op(IF viewProps.onFocus THEN "props.onFocus" ELSE "handleFocus",
                    -1, <<>>, "")
    /\ otpChangeCalls' = <<>>
    /\ splitChangeCalls' = <<>>
    /\ warnings' = <<>>
    /\ UNCHANGED <<props, phase, otpValues, otpFocusedIndex, splitFocusedKey,
                   otpRefs, attachedRefs, nativeFocus, events, timers,
                   autoFocusTimer>>

\* the plain input loses the focus: its onBlur prop is handleBlur unless the
\* caller's onBlur replaces it
handleBlur ==
    /\ phase = "mounted"
    /\ type = "default"
    /\ isFocused' = IF viewProps.onBlur THEN isFocused ELSE FALSE
    /\ lastOp' = Op(IF viewProps.onBlur THEN "props.onBlur" ELSE "handleBlur",
                    -1, <<>>, "")
    /\ otpChangeCalls' = <<>>
    /\ splitChangeCalls' = <<>>
    /\ warnings' = <<>>
    /\ UNCHANGED <<props, phase, otpValues, otpFocusedIndex, splitFocusedKey,
                   otpRefs, attachedRefs, nativeFocus, events, timers,
                   autoFocusTimer>>

Next ==
    \/ MountEffects
    \/ AutoFocusTimerFire
    \/ \E text \in Texts, index \in 0..(MaxLen - 1) : handleOtpChange(text, index)
    \/ \E key \in KeyNames, index \in 0..(MaxLen - 1) : handleOtpKeyPress(key, index)
    \/ handleOtpFocus
    \/ handleOtpBlur
    \/ \E index \in 0..(MaxLen - 1) : UserFocus(index)
    \/ UserBlur
    \/ PasteTimerFire
    \/ \E value \in Seeds : SetOtpValue(value)
    \/ \E key \in SplitKeys, text \in SplitTexts : handleSplitChange(key, text)
    \/ \E values \in SplitMaps : SetSplitValues(values)

Spec == Init /\ [][Next]_vars

-----------------------------------------------------------------------------
(* Mounting under any configuration, malformed ones included *)

AnyLengths == {Num(k) : k \in (-1)..(MaxOtpLength + 1)} \cup {Half(2)}
AnySeeds == SeqsUpTo(Digits, MaxSeed)
AnySplitConfigs == SeqsUpTo(SplitKeys \cup {"", " ", NumberKey}, 2)

InitMount == InitOtp(AnyLengths, AnySeeds) \/ InitSplit(AnySplitConfigs)

NextMount ==
    \/ MountEffects
    \/ AutoFocusTimerFire

SpecMount == InitMount /\ [][NextMount]_vars

-----------------------------------------------------------------------------
(* Re-configuring otpLength while mounted *)

\* events of the cells that stay rendered
RECURSIVE KeepEvents(_, _)
KeepEvents(queue, length) ==
    IF queue = <<>> THEN <<>>
    ELSE IF Head(queue).index < length
    THEN <<Head(queue)>> \o KeepEvents(Tail(queue), length)
    ELSE KeepEvents(Tail(queue), length)

\* the caller re-renders the component with otpLength = length: the cells
\* index >= length are unmounted (a focused one loses the focus, and its
\* blur event may or may not reach onBlur), then the effects that depend on
\* otpLength run
SetOtpLength(length) ==
    /\ phase = "mounted"
    /\ type = "otp"
    /\ length # otpLength
    /\ otpLength' = length
    /\ IF ~ArrayLengthOk(length)
       THEN /\ phase' = "thrown"
            /\ warnings' = <<>>
            /\ UNCHANGED <<otpValues, otpRefs, attachedRefs, nativeFocus, events>>
       ELSE /\ phase' = phase
            /\ LET e == InitOtpEffect(length.whole, otpValue, otpValues, otpRefs)
               IN  /\ otpValues' = e.otpValues
                   /\ otpRefs' = e.otpRefs
                   /\ attachedRefs' = e.attachedRefs
            /\ warnings' = ValidationWarnings(type, length, otpValue, splitFields)
            /\ IF nativeFocus >= length.whole
               THEN /\ nativeFocus' = -1
                    /\ \E delivered \in BOOLEAN :
                          events' = KeepEvents(events, length.whole)
                                    \o (IF delivered
                                        THEN <<BlurEvent(nativeFocus)>> ELSE <<>>)
               ELSE /\ nativeFocus' = nativeFocus
                    /\ events' = KeepEvents(events, length.whole)
    /\ lastOp' = Op("setOtpLength", length.whole, <<>>, "")
    /\ otpChangeCalls' = <<>>
    /\ splitChangeCalls' = <<>>
    /\ UNCHANGED <<viewProps, fieldProps, isFocused, splitFocusedKey>>
    /\ UNCHANGED <<type, otpValue, otpAutoFocus, splitFields, splitValues,
                   otpFocusedIndex, timers, autoFocusTimer>>

ResizeSeeds == {<<>>, <<"5">>}

InitResize == InitOtp(ValidLengths, ResizeSeeds)

NextResize ==
    \/ MountEffects
    \/ \E text \in Texts, index \in 0..(MaxLen - 1) : handleOtpChange(text, index)
    \/ handleOtpFocus
    \/ handleOtpBlur
    \/ \E index \in 0..(MaxLen - 1) : UserFocus(index)
    \/ PasteTimerFire
    \/ \E length \in ValidLengths : SetOtpLength(length)

SpecResize == InitResize /\ [][NextResize]_vars

-----------------------------------------------------------------------------
(* Unmounting *)

\* the component is unmounted: the cleanup of the auto-focus effect clears
\* its timeout, React detaches every ref, and the host fields are gone
Unmount ==
    /\ phase = "mounted"
    /\ phase' = "unmounted"
    /\ autoFocusTimer' = FALSE
    /\ attachedRefs' = 0
    /\ nativeFocus' = -1
    /\ events' = <<>>
    /\ lastOp' = Op("unmount", -1, <<>>, "")
    /\ otpChangeCalls' = <<>>
    /\ splitChangeCalls' = <<>>
    /\ warnings' = <<>>
    /\ UNCHANGED <<isFocused, splitFocusedKey>>
    /\ UNCHANGED <<props, otpValues, otpFocusedIndex, otpRefs, timers>>

InitUnmount == InitOtp(ValidLengths, ResizeSeeds)

NextUnmount ==
    \/ MountEffects
    \/ AutoFocusTimerFire
    \/ \E text \in Texts, index \in 0..(MaxLen - 1) : handleOtpChange(text, index)
    \/ handleOtpFocus
    \/ handleOtpBlur
    \/ \E index \in 0..(MaxLen - 1) : UserFocus(index)
    \/ PasteTimerFire
    \/ Unmount

SpecUnmount == InitUnmount /\ [][NextUnmount]_vars

-----------------------------------------------------------------------------
(* Rendering under any focus state, editable flag, error and style props *)

\* largest otpLength of SpecStyle
MaxStyleLen == 2

StyleSplitConfigs == {<<"mm">>, <<"mm", "dd">>}
OptionalBooleans == {Unset, Given(TRUE), Given(FALSE)}

InitStylePlain ==
    /\ Construct("default", Num(DefaultOtpLength), <<>>, TRUE, <<>>, NoMap)
    /\ fieldProps = <<>>
    /\ \E editable, error, base, focused, disabled, onFocus, onBlur \in BOOLEAN :
          viewProps = ViewPropsWith([editable |-> editable, error |-> error,
                                     inputContainerStyle |-> base,
                                     focusedInputContainerStyle |-> focused,
                                     disabledInputContainerStyle |-> disabled,
                                     onFocus |-> onFocus, onBlur |-> onBlur])

InitStyleOtp ==
    /\ \E length \in 1..MaxStyleLen, autoFocus \in BOOLEAN :
          Construct("otp", Num(length), <<>>, autoFocus, <<>>, NoMap)
    /\ fieldProps = <<>>
    /\ \E editable, error, base, focused, disabled \in BOOLEAN,
          keyboard \in {"default", "email-address"} :
          viewProps = ViewPropsWith([editable |-> editable, error |-> error,
                                     keyboardType |-> keyboard,
                                     otpInputContainerStyle |-> base,
                                     otpFocusedInputContainerStyle |-> focused,
                                     disabledInputContainerStyle |-> disabled])

InitStyleSplit ==
    \E fields \in StyleSplitConfigs :
       /\ Construct("split", Num(DefaultOtpLength), <<>>, TRUE, fields, NoMap)
       /\ \E editables \in [1..Len(fields) -> OptionalBooleans] :
             fieldProps = [k \in 1..Len(fields) |->
                             [KeyOnlyField EXCEPT !.editable = editables[k]]]
       /\ \E editable, error, base, focused, disabled \in BOOLEAN :
             viewProps = ViewPropsWith([editable |-> editable, error |-> error,
                                        splitInputContainerStyle |-> base,
                                        splitFocusedInputContainerStyle |-> focused,
                                        disabledInputContainerStyle |-> disabled])

InitStyle == InitStylePlain \/ InitStyleOtp \/ InitStyleSplit

NextStyle ==
    \/ MountEffects
    \/ AutoFocusTimerFire
    \/ \E index \in 0..(MaxStyleLen - 1) : UserFocus(index)
    \/ UserBlur
    \/ handleOtpFocus
    \/ handleOtpBlur
    \/ \E field \in 1..2 : handleSplitFocus(field)
    \/ handleSplitBlur
    \/ handleFocus
    \/ handleBlur

SpecStyle == InitStyle /\ [][NextStyle]_vars

-----------------------------------------------------------------------------
(* Rendering one split cell under any descriptor and group settings *)

FieldSettings ==
    [keyboardType : {Unset, Given("numeric")},
     autoCapitalize : {Unset, Given("characters")},
     maxLength : {Unset, Given(2)},
     secureTextEntry : OptionalBooleans,
     editable : OptionalBooleans]

InitSplitRender ==
    /\ Construct("split", Num(DefaultOtpLength), <<>>, TRUE, <<"mm">>, NoMap)
    /\ \E settings \in FieldSettings : fieldProps = <<settings>>
    /\ \E keyboard \in {"default", "email-address"},
          capitalize \in {"none", "words"},
          length \in {Unset, Given(4)},
          secure, editable \in BOOLEAN :
          viewProps = ViewPropsWith([keyboardType |-> keyboard,
                                     autoCapitalize |-> capitalize,
                                     maxLength |-> length,
                                     secureTextEntry |-> secure,
                                     editable |-> editable])

NextSplitRender ==
    \/ MountEffects
    \/ handleSplitFocus(1)
    \/ handleSplitBlur
    \/ \E text \in SplitTexts : handleSplitChange("mm", text)

SpecSplitRender == InitSplitRender /\ [][NextSplitRender]_vars

-----------------------------------------------------------------------------
(* The OTP handlers called with any index, in range or not *)

\* largest otpLength of SpecCalls
MaxCallLen == 2

CallIndexes == (-1)..MaxCallLen
CallTexts == {<<>>, <<"5">>, <<"5", "6">>, <<" ", " ">>}

CallOtpChange(text, index) ==
    /\ Len(events) + 2 <= MaxEvents
    /\ OtpChangeCall(text, index)

\* handleOtpPaste called with (pastedText, currentIndex)
CallOtpPaste(pastedText, currentIndex) ==
    /\ phase = "mounted"
    /\ type = "otp"
    /\ Len(timers) < MaxTimers
    /\ lastOp' = Op("handleOtpPaste", currentIndex, pastedText, "")
    /\ handleOtpPaste(pastedText, currentIndex)
    /\ splitChangeCalls' = <<>>
    /\ UNCHANGED <<isFocused, splitFocusedKey>>
    /\ UNCHANGED <<props, phase, otpFocusedIndex, otpRefs, nativeFocus, events,
                   autoFocusTimer>>

CallOtpKeyPress(key, index) ==
    /\ Len(events) + 2 <= MaxEvents
    /\ OtpKeyPressCall(key, index)

CallOtpFocus(index) ==
    /\ type = "otp"
    /\ events' = events
    /\ OtpFocusCall(index)

InitCalls == InitOtp({Num(k) : k \in 1..MaxCallLen}, ResizeSeeds)

NextCalls ==
    \/ MountEffects
    \/ \E text \in CallTexts, index \in CallIndexes : CallOtpChange(text, index)
    \/ \E text \in CallTexts, index \in CallIndexes : CallOtpPaste(text, index)
    \/ \E key \in KeyNames, index \in CallIndexes : CallOtpKeyPress(key, index)
    \/ \E index \in CallIndexes : CallOtpFocus(index)
    \/ handleOtpFocus
    \/ handleOtpBlur
    \/ PasteTimerFire

SpecCalls == InitCalls /\ [][NextCalls]_vars

-----------------------------------------------------------------------------
(* Seeding: otpValue of any length at mount and on later renders *)

InitSeed == InitOtp(ValidLengths, Seeds)

NextSeed ==
    \/ MountEffects
    \/ \E value \in Seeds : SetOtpValue(value)
    \/ \E text \in CellStrings, index \in 0..(MaxLen - 1) :
          handleOtpChange(text, index)
    \/ \E index \in 0..(MaxLen - 1) : UserFocus(index)
    \/ handleOtpFocus
    \/ handleOtpBlur

SpecSeed == InitSeed /\ [][NextSeed]_vars

-----------------------------------------------------------------------------
(* The controlled use of the README: onOtpChange stores its argument and   *)
(* the caller passes it back as otpValue.  The caller's setState runs in   *)
(* the same event as the edit, so the re-render with the new otpValue comes *)
(* before anything else is handled.                                         *)

\* the caller has no onOtpChange result left to pass back
Settled == otpChangeCalls = <<>>

\* the re-render with otpValue = the argument of the last onOtpChange call
FeedBack ==
    /\ ~Settled
    /\ SetOtpValue(otpChangeCalls[Len(otpChangeCalls)])

ControlledChange(text, index) == Settled /\ handleOtpChange(text, index)
ControlledUserFocus(index) == Settled /\ UserFocus(index)
ControlledFocusEvent == Settled /\ handleOtpFocus
ControlledBlurEvent == Settled /\ handleOtpBlur
ControlledPasteTimer == Settled /\ PasteTimerFire

InitControlled == InitOtp(ValidLengths, {<<>>})

NextControlled ==
    \/ MountEffects
    \/ FeedBack
    \/ \E text \in Texts, index \in 0..(MaxLen - 1) : ControlledChange(text, index)
    \/ \E index \in 0..(MaxLen - 1) : ControlledUserFocus(index)
    \/ ControlledFocusEvent
    \/ ControlledBlurEvent
    \/ ControlledPasteTimer

SpecControlled == InitControlled /\ [][NextControlled]_vars

-----------------------------------------------------------------------------
(* Two edits handled in one batch: the second onChangeText reaches the     *)
(* handler created by the same render as the first, so both calls read the  *)
(* otpValues of that render, and the state updates are applied together.    *)

\* the characters typed into the focused cell
EntryTexts == {<<c>> : c \in Digits}

\* handleOtpChange(text1, focused cell) moves the focus to the next cell,
\* then handleOtpChange(text2, that cell) runs before the re-render
BatchedOtpChanges(text1, text2) ==
    LET index1 == nativeFocus
        first == ChangeValues(otpValues, text1, index1)
    IN  /\ phase = "mounted"
        /\ type = "otp"
        /\ events = <<>>
        /\ index1 >= 0 /\ index1 < OtpLen - 1
        /\ RefUsable(index1 + 1)
        /\ Len(text1) = 1 /\ Len(text2) <= OtpLen
        /\ (Len(text2) > 1 /\ CleanedText(text2) # <<>>) => Len(timers) < MaxTimers
        /\ \E o1 \in RefFocus(index1 + 1) :
              LET index2 == o1.nativeFocus
                  cleanedText == CleanedText(text2)
                  pasted == PasteValues(otpValues, cleanedText, index2, OtpLen)
                  changed == ChangeValues(otpValues, text2, index2)
              IN  /\ lastOp' = Op("batchedOtpChange", index2, text2, "")
                  /\ IF Len(text2) > 1
                     THEN /\ nativeFocus' = o1.nativeFocus
                          /\ events' = o1.events
                          /\ IF cleanedText = <<>>
                             THEN /\ otpValues' = first
                                  /\ otpChangeCalls' = <<Join(first)>>
                                  /\ UNCHANGED timers
                             ELSE /\ otpValues' = pasted
                                  /\ otpChangeCalls' = <<Join(first), Join(pasted)>>
                                  /\ timers' =
                                        Append(timers,
                                               PasteTimer(pasted,
                                                          NextFocusIndex(cleanedText,
                                                                         index2,
                                                                         OtpLen),
                                                          OtpLen))
                     ELSE /\ otpValues' = changed
                          /\ otpChangeCalls' = <<Join(first), Join(changed)>>
                          /\ \E o2 \in (IF text2 # <<>> /\ index2 < OtpLen - 1
                                            /\ RefUsable(index2 + 1)
                                         THEN FocusOutcomes(index2 + 1,
                                                            o1.nativeFocus,
                                                            o1.events)
                                         ELSE NoChange(o1.nativeFocus, o1.events)) :
                                nativeFocus' = o2.nativeFocus /\ events' = o2.events
                          /\ UNCHANGED timers
        /\ attachedRefs' = RenderedRefs(OtpLen, otpRefs)
        /\ warnings' = <<>>
        /\ splitChangeCalls' = <<>>
        /\ UNCHANGED <<isFocused, splitFocusedKey>>
        /\ UNCHANGED <<props, phase, otpFocusedIndex, otpRefs, autoFocusTimer>>

InitBatch == InitOtp(ValidLengths, {<<>>})

NextBatch ==
    \/ MountEffects
    \/ AutoFocusTimerFire
    \/ \E index \in 0..(MaxLen - 1) : UserFocus(index)
    \/ handleOtpFocus
    \/ handleOtpBlur
    \/ \E text \in Texts, index \in 0..(MaxLen - 1) : handleOtpChange(text, index)
    \/ \E text1 \in EntryTexts, text2 \in Texts : BatchedOtpChanges(text1, text2)
    \/ PasteTimerFire

SpecBatch == InitBatch /\ [][NextBatch]_vars

-----------------------------------------------------------------------------
(* The split engine alone *)

InitSplitOnly == InitSplit(SplitConfigs)

NextSplit ==
    \/ MountEffects
    \/ \E key \in SplitKeys, text \in SplitTexts : handleSplitChange(key, text)
    \/ \E values \in SplitMaps : SetSplitValues(values)

SpecSplit == InitSplitOnly /\ [][NextSplit]_vars

-----------------------------------------------------------------------------
(* Change events on any cell array: the inputs of handleOtpChange are drawn *)
(* from bounded sets.  The component is mounted with otpAutoFocus false and *)
(* no seed, the user has filled some cells and then tapped cell focus.      *)

\* largest otpLength of SpecPaste
MaxPasteLen == 4
\* longest text of a change event of SpecPaste
MaxPasteText == 3

PasteTexts == SeqsUpTo(InputChars, MaxPasteText)

TypedInto(length, cells, focus) ==
    /\ type = "otp"
    /\ otpLength = Num(length)
    /\ otpValue = <<>>
    /\ otpAutoFocus = FALSE
    /\ splitFields = <<>>
    /\ splitValues = NoMap
    /\ phase = "mounted"
    /\ otpValues = cells
    /\ otpFocusedIndex = focus
    /\ isFocused = FALSE
    /\ splitFocusedKey = ""
    /\ viewProps = DefaultViewProps
    /\ fieldProps = <<>>
    /\ otpRefs = length
    /\ attachedRefs = RenderedRefs(length, length)
    /\ nativeFocus = focus
    /\ events = <<>>
    /\ timers = <<>>
    /\ autoFocusTimer = FALSE
    /\ otpChangeCalls = <<>>
    /\ splitChangeCalls = <<>>
    /\ warnings = <<>>
    /\ lastOp = Op("handleOtpFocus", focus, <<>>, "")

InitPaste ==
    \E length \in 1..MaxPasteLen :
       \E cells \in [1..length -> CellStrings], focus \in 0..(length - 1) :
          TypedInto(length, cells, focus)

NextPaste ==
    \E text \in PasteTexts, index \in 0..(MaxPasteLen - 1) :
       handleOtpChange(text, index)

SpecPaste == InitPaste /\ [][NextPaste]_vars

-----------------------------------------------------------------------------
(* Claims.  The expected results are written out cell by cell, without the *)
(* operators of the handlers.                                               *)

NotSpace(c) == c # " "
Stripped(text) == SelectSeq(text, NotSpace)

\* the step is a paste: a change event of more than one character
IsPaste(op) == op.name = "handleOtpChange" /\ Len(op.text) > 1

\* the step is a single-character entry or a deletion
IsEntry(op) == op.name = "handleOtpChange" /\ Len(op.text) <= 1

\* the concatenation of the strings of a cell array, in order
RECURSIVE Flat(_)
Flat(cells) == IF cells = <<>> THEN <<>> ELSE Head(cells) \o Flat(Tail(cells))

C2_FocusAfterPaste ==
    [][/\ (IsPaste(lastOp') /\ Stripped(lastOp'.text) # <<>>) =>
             LET w == Min(lastOp'.index + Len(Stripped(lastOp'.text)), OtpLen) - 1
                 empties == {k \in (w + 1)..(OtpLen - 1) : otpValues'[k + 1] = <<>>}
                 timer == timers'[Len(timers')]
             IN  /\ Len(timers') = Len(timers) + 1
                 /\ IF empties # {}
                    THEN timer.kind = "focus" /\ timer.index \in empties
                         /\ \A k \in empties : timer.index <= k
                    ELSE IF w + 1 < OtpLen
                    THEN timer.kind = "focus" /\ timer.index = w + 1
                    ELSE timer.kind = "blur" /\ timer.index = w
       /\ (IsPaste(lastOp) /\ Stripped(lastOp.text) # <<>>
           /\ lastOp'.name = "pasteTimer") =>
             IF lastOp'.key = "focus" THEN nativeFocus' = lastOp'.index
             ELSE nativeFocus' = -1]_vars

\* C3: a change event of at most one character at cell i sets cell i to the
\* text, calls onOtpChange once with the join of the cells after the change,
\* and moves the focus to cell i+1 exactly when the text is non-empty and
\* i < L-1.
C3_SingleCharacterEntry ==
    [][IsEntry(lastOp') =>
          LET i == lastOp'.index
              text == lastOp'.text
          IN  /\ otpValues' = [otpValues EXCEPT ![i + 1] = text]
              /\ otpChangeCalls' = <<Flat(otpValues')>>
              /\ nativeFocus' = IF text # <<>> /\ i < OtpLen - 1
                                THEN i + 1 ELSE nativeFocus]_vars

\* C4: Backspace on an empty cell i > 0 moves the focus to cell i-1;
\* Backspace on cell 0 or on a non-empty cell leaves the focus where it is;
\* a key press never leaves the focus below index 0.
C4_Backspace ==
    [][lastOp'.name = "handleOtpKeyPress" =>
          LET i == lastOp'.index
          IN  /\ nativeFocus' >= 0
              /\ lastOp'.key = "Backspace" =>
                    nativeFocus' = IF otpValues[i + 1] = <<>> /\ i > 0
                                   THEN i - 1 ELSE nativeFocus]_vars

\* C4 witness: Backspace on the empty third cell moved the focus to the second.
C4_Witness ==
    /\ lastOp.name = "handleOtpKeyPress"
    /\ lastOp.key = "Backspace"
    /\ lastOp.index = 2
    /\ otpValues[3] = <<>>
    /\ nativeFocus = 1

\* C5: after initialization with a length L in 1..20 and a seed S with
\* |S| <= L, the cell array has exactly L slots, slot k holding S[k] for
\* k < |S| and the empty string otherwise (the empty seed included).
C5_Initialization ==
    (phase = "mounted" /\ type = "otp" /\ NumberIsInteger(otpLength)
     /\ OtpLen >= 1 /\ OtpLen <= 20 /\ Len(otpValue) <= OtpLen) =>
       /\ Len(otpValues) = OtpLen
       /\ \A k \in 1..OtpLen :
             otpValues[k] = IF k <= Len(otpValue) THEN <<otpValue[k]>> ELSE <<>>

\* C5 witness: length 20 seeded with "5665".
C5_Witness ==
    /\ phase = "mounted"
    /\ type = "otp"
    /\ otpLength = Num(20)
    /\ otpValue = <<"5", "6", "6", "5">>
    /\ otpValues[3] = <<"6">>
    /\ otpValues[4] = <<"5">>
    /\ otpValues[20] = <<>>

\* C6: an edit of the configured field K to the text v with the value map M
\* calls onSplitChange exactly once, with (M', K, v) where M'[K] = v and
\* M'[k] = M[k] for every other key k of M.
C6_SplitEdit ==
    (lastOp.name = "handleSplitChange" /\ lastOp.key \in Keys(splitFields)) =>
       /\ Len(splitChangeCalls) = 1
       /\ LET call == splitChangeCalls[1]
          IN  /\ call.key = lastOp.key
              /\ call.value = lastOp.text
              /\ DOMAIN call.values = (DOMAIN splitValues) \cup {lastOp.key}
              /\ call.values[lastOp.key] = lastOp.text
              /\ \A k \in (DOMAIN splitValues) \ {lastOp.key} :
                    call.values[k] = splitValues[k]

\* C6 witness: fields mm, dd; map {dd: "15"}; mm edited to "07".
C6_Witness ==
    /\ lastOp.name = "handleSplitChange"
    /\ splitFields = <<"mm", "dd">>
    /\ DOMAIN splitValues = {"dd"}
    /\ splitValues["dd"] = <<"1", "5">>
    /\ lastOp.key = "mm"
    /\ lastOp.text = <<"0", "7">>
    /\ Len(splitChangeCalls) = 1
    /\ splitChangeCalls[1].values["dd"] = <<"1", "5">>
    /\ splitChangeCalls[1].values["mm"] = <<"0", "7">>

\* C7: whatever the configuration (otpLength non-integer, negative, 0 or over
\* 20; otpValue longer than otpLength; splitFields empty or with blank or
\* duplicate keys), rendering raises no exception.
C7_NoExceptionOnMalformedConfig == phase # "thrown"

\* C8: when otpLength changes from L to L' while mounted, the cell array
\* afterwards has exactly L' slots, slot k keeping its value for
\* k < min(L, L') and every new slot empty.
C8_LengthReconfiguration ==
    [][lastOp'.name = "setOtpLength" =>
          /\ Len(otpValues') = otpLength'.whole
          /\ \A k \in 0..(otpLength'.whole - 1) :
                Cell(otpValues', k) =
                   IF k < OtpLen THEN Cell(otpValues, k) ELSE <<>>]_vars

\* C9: with a fixed valid length L, after any sequence of seed updates,
\* entries, deletions and pastes the cell array has exactly L slots and
\* every slot holds a string of length 0 or 1.
C9_CellArrayInvariant ==
    (phase # "thrown" /\ type = "otp") =>
       /\ Len(otpValues) = OtpLen
       /\ \A k \in 1..Len(otpValues) :
             otpValues[k] # Undefined /\ Len(otpValues[k]) <= 1

\* C9 witness: three cells, seeded by the caller, after a paste filled the
\* last cell.
C9_Witness ==
    /\ IsPaste(lastOp)
    /\ otpValue # <<>>
    /\ OtpLen = 3
    /\ Len(otpValues) = 3
    /\ otpValues[1] # <<>>
    /\ otpValues[3] # <<>>

\* C10: in every state, also after focus and blur events and after
\* otpLength changed while mounted, otpFocusedIndex is in -1 .. L-1 for the
\* current length L (-1 being the record of no focused cell).
C10_FocusedIndexRange ==
    (phase = "mounted" /\ type = "otp") =>
       otpFocusedIndex >= -1 /\ otpFocusedIndex <= OtpLen - 1

\* C11: once the component is unmounted no deferred focus timer is pending
\* (neither the 100 ms auto-focus timeout nor a 50 ms timeout of a paste),
\* and no step after the unmount is the firing of such a timer.
C11_TimersCancelledOnUnmount ==
    phase = "unmounted" =>
       /\ ~autoFocusTimer
       /\ timers = <<>>
       /\ lastOp.name \notin {"pasteTimer", "autoFocusTimer"}

\* the place of a style fragment in the claimed precedence: base, then
\* state overlay (focused / disabled), then error overlay, then the
\* caller's override of the container
\* the style list holds the fragment
Has(style, fragment) == \E k \in 1..Len(style) : style[k] = fragment

StyleRank(fragment) ==
    IF fragment \in {"styles.inputContainer", "styles.otpInputContainer",
                     "styles.splitInputContainer", "{}"} THEN 0
    ELSE IF fragment = "styles.errorInputContainer" THEN 2
    ELSE IF fragment \in {"inputContainerStyle", "otpInputContainerStyle",
                          "splitInputContainerStyle"} THEN 3
    ELSE 1

\* C12: in every rendered input container (plain, OTP cell, split cell) the
\* style list is ordered base, state overlay, error overlay, caller's
\* override: no fragment is followed by one of a lower place, so the
\* caller's override comes after every built-in overlay.
C12_StylePrecedence ==
    \A style \in RenderedContainerStyles :
       \A a, b \in 1..Len(style) :
          a < b => StyleRank(style[a]) <= StyleRank(style[b])

\* C13: every rendered split cell gets, for each of keyboard type,
\* capitalization, max length, secure flag and editable flag, the
\* descriptor's value when the descriptor sets it and the group-level value
\* when the descriptor leaves it unset.
C13_SplitFieldFallback ==
    \A field \in RenderedSplitCells :
       LET cell == SplitCellProps(field)
           given == fieldProps[field]
       IN  /\ cell.keyboardType = IF given.keyboardType # <<>>
                                  THEN given.keyboardType[1]
                                  ELSE viewProps.keyboardType
           /\ cell.autoCapitalize = IF given.autoCapitalize # <<>>
                                    THEN given.autoCapitalize[1]
                                    ELSE viewProps.autoCapitalize
           /\ cell.maxLength = IF given.maxLength # <<>>
                               THEN given.maxLength
                               ELSE viewProps.maxLength
           /\ cell.secureTextEntry = IF given.secureTextEntry # <<>>
                                     THEN given.secureTextEntry[1]
                                     ELSE viewProps.secureTextEntry
           /\ cell.editable = IF given.editable # <<>>
                              THEN given.editable[1]
                              ELSE viewProps.editable

\* C14: every step of the mounted component that changes the cell array
\* (entry, deletion, paste, re-seeding from otpValue) calls onOtpChange
\* exactly once, with the in-order join of the cells after the change.
C14_ChangeCallbackOnEveryMutation ==
    [][(phase = "mounted" /\ otpValues' # otpValues) =>
          otpChangeCalls' = <<Flat(otpValues')>>]_vars

\* the step is an OTP operation called with an index outside 0 .. L-1
OutOfRangeCall(op) ==
    /\ op.name \in {"handleOtpChange", "handleOtpPaste", "handleOtpKeyPress",
                    "handleOtpFocus"}
    /\ (op.index < 0 \/ op.index >= OtpLen)

\* C15: an OTP operation (change, paste, key press, focus) called with an
\* index < 0 or >= L leaves the cell array and the focused index unchanged,
\* calls no caller callback, moves no focus and schedules none, and reports
\* a developer warning.
C15_OutOfRangeIndex ==
    [][OutOfRangeCall(lastOp') =>
          /\ otpValues' = otpValues
          /\ otpFocusedIndex' = otpFocusedIndex
          /\ otpChangeCalls' = <<>>
          /\ nativeFocus' = nativeFocus
          /\ timers' = timers
          /\ warnings' # <<>>]_vars

\* C16: an edit whose key is the key of no configured descriptor does not
\* call onSplitChange, changes no state of the component and reports a
\* developer warning.
C16_SplitUnknownKey ==
    [][(lastOp'.name = "handleSplitChange"
        /\ \A k \in 1..Len(splitFields) : splitFields[k] # lastOp'.key) =>
          /\ splitChangeCalls' = <<>>
          /\ Len(warnings') = 1
          /\ UNCHANGED <<splitValues, splitFields, splitFocusedKey, isFocused,
                         otpValues, otpFocusedIndex, phase>>]_vars

\* C16 witness: the only descriptor is mm with the map {mm: "07"}; an edit
\* of dd was made and warned about.
C16_Witness ==
    /\ lastOp.name = "handleSplitChange"
    /\ lastOp.key = "dd"
    /\ lastOp.text = <<"1", "5">>
    /\ splitFields = <<"mm">>
    /\ DOMAIN splitValues = {"mm"}
    /\ splitValues["mm"] = <<"0", "7">>
    /\ splitChangeCalls = <<>>
    /\ warnings = <<"splitKey">>

\* the descriptor list is empty, has a key that is blank or not a string,
\* or has two equal keys
MalformedSplitFields ==
    \/ splitFields = <<>>
    \/ \E k \in 1..Len(splitFields) :
          splitFields[k] \in {"", " ", "7 (number)"}
    \/ \E j, k \in 1..Len(splitFields) : j # k /\ splitFields[j] = splitFields[k]

\* C17: a split component with a malformed descriptor list never raises an
\* exception; its validation at mount reports a developer warning, and it
\* renders one cell per given descriptor.
C17_SplitValidationFailOpen ==
    (type = "split" /\ MalformedSplitFields) =>
       /\ phase \in {"rendered", "mounted"}
       /\ Cardinality(RenderedSplitCells) = Len(splitFields)
       /\ lastOp.name = "mount" => warnings # <<>>

\* C17 witness: two descriptors with the same key mm, mounted with a warning
\* and two cells.
C17_Witness ==
    /\ type = "split"
    /\ splitFields = <<"mm", "mm">>
    /\ lastOp.name = "mount"
    /\ phase = "mounted"
    /\ warnings # <<>>
    /\ RenderedSplitCells = {1, 2}

\* C18: a paste (a change event of more than one character) whose text is
\* empty after whitespace stripping leaves every cell, the focus and the
\* focused index unchanged, schedules no focus transfer and does not call
\* onOtpChange.
C18_WhitespaceOnlyPaste ==
    [][(IsPaste(lastOp') /\ Stripped(lastOp'.text) = <<>>) =>
          /\ otpValues' = otpValues
          /\ nativeFocus' = nativeFocus
          /\ otpFocusedIndex' = otpFocusedIndex
          /\ events' = events
          /\ timers' = timers
          /\ otpChangeCalls' = <<>>]_vars

\* C18 witness: three cells [5,6,_] with cell 1 focused; "  " was pasted
\* into cell 1.
C18_Witness ==
    /\ IsPaste(lastOp)
    /\ lastOp.text = <<" ", " ">>
    /\ lastOp.index = 1
    /\ otpValues = << <<"5">>, <<"6">>, <<>> >>
    /\ nativeFocus = 1
    /\ timers = <<>>
    /\ otpChangeCalls = <<>>

\* C19: mounting an OTP component of a valid length with otpAutoFocus true
\* schedules the deferred focus call, and when it runs (nothing else having
\* happened since the mount) cell 0 holds the focus; with otpAutoFocus
\* false no cell is focused by the mount.
C19_AutoFocusOnMount ==
    [][/\ (lastOp'.name = "mount" /\ type = "otp" /\ otpAutoFocus
           /\ OtpLen >= 1 /\ OtpLen <= 20) => autoFocusTimer'
       /\ lastOp'.name = "autoFocusTimer" => nativeFocus' = 0
       /\ (type = "otp" /\ ~otpAutoFocus) =>
             (~autoFocusTimer' /\ nativeFocus' = -1)]_vars

\* C20: when the component is mounted with, or its otpValue changes to, a
\* string longer than otpLength, a developer warning is reported, the cell
\* array keeps its contents, and the component still renders otpLength
\* cells, editable as the caller's editable prop (true by default) says.
C20_OversizedSeed ==
    [][(type = "otp" /\ Len(otpValue') > OtpLen
        /\ \/ lastOp'.name = "mount"
           \/ lastOp'.name = "setOtpValue" /\ otpValue' # otpValue) =>
          /\ warnings' # <<>>
          /\ otpValues' = otpValues
          /\ phase' = "mounted"
          /\ RenderedOtpCells' = 0..(OtpLen - 1)
          /\ \A index \in RenderedOtpCells' :
                /\ OtpCellProps(index)'.editable
                /\ OtpCellProps(index)'.value = otpValues[index + 1]]_vars

\* C20 witness: three cells, 6 typed into cell 0, then otpValue = "5555".
C20_Witness ==
    /\ lastOp.name = "setOtpValue"
    /\ OtpLen = 3
    /\ otpValue = <<"5", "5", "5", "5">>
    /\ otpValues = << <<"6">>, <<>>, <<>> >>
    /\ warnings = <<"otpValue">>

\* C21: every rendered OTP cell has the keyboard type the caller passes as
\* keyboardType ("default" in the README's example).
C21_OtpKeyboardType ==
    \A index \in RenderedOtpCells :
       OtpCellProps(index).keyboardType = viewProps.keyboardType

\* C22: in plain mode a focus event sets isFocused to true and a blur event
\* sets it to false, so that the focused overlay is in the container style
\* exactly while the field is focused, also when the caller passes onFocus
\* or onBlur (the step is then the invocation of the caller's callback).
C22_PlainFocusTracking ==
    [][type = "default" =>
          /\ lastOp'.name \in {"handleFocus", "props.onFocus"} =>
                /\ isFocused'
                /\ \E k \in 1..Len(getInputContainerStyle') :
                      getInputContainerStyle'[k] = "styles.focusedInputContainer"
          /\ lastOp'.name \in {"handleBlur", "props.onBlur"} =>
                /\ ~isFocused'
                /\ \A k \in 1..Len(getInputContainerStyle') :
                      getInputContainerStyle'[k] # "styles.focusedInputContainer"]_vars

\* C23: when the caller passes the argument of an onOtpChange call back as
\* otpValue, the re-render leaves every cell as the edit left it: no
\* character moves to another cell.
C23_ControlledRoundTrip ==
    [][(otpChangeCalls # <<>> /\ lastOp'.name = "setOtpValue"
        /\ otpValue' = otpChangeCalls[Len(otpChangeCalls)]) =>
          otpValues' = otpValues]_vars

\* C24: once the focus and blur events of a move of the focus to OTP cell b
\* have been handled, in whichever order they were delivered,
\* otpFocusedIndex is b: it is never -1 while cell b holds the focus.
C24_FocusIndicatorEitherOrder ==
    (phase = "mounted" /\ type = "otp" /\ events = <<>> /\ nativeFocus # -1) =>
       otpFocusedIndex = nativeFocus

\* C25: when two OTP cell edits on different cells are handled before the
\* component re-renders between them, the committed cell array and the
\* argument of the last onOtpChange call keep the character of the first
\* edit: the second edit does not put back what that cell held at the last
\* render.
C25_NoLostCellUpdate ==
    [][\A text1 \in EntryTexts, text2 \in Texts :
          BatchedOtpChanges(text1, text2) =>
             /\ Cell(otpValues', nativeFocus) = text1
             /\ otpChangeCalls'[Len(otpChangeCalls')] =
                   Join(SetAt(otpValues', nativeFocus, text1))]_vars

\* C26: a split cell's container style and text style carry the disabled
\* overlay exactly when the cell is rendered non-editable (the
\* descriptor's editable if set, otherwise the group-level editable).
C26_SplitDisabledOverlay ==
    \A field \in RenderedSplitCells :
       /\ Has(getSplitInputContainerStyle(field), "styles.disabledInputContainer")
             <=> ~SplitCellProps(field).editable
       /\ Has(getSplitInputStyle(field), "styles.disabledInput")
             <=> ~SplitCellProps(field).editable

\* C27: when otpValue changes to the empty string while the component is
\* mounted, the cell array is left unchanged: the caller does not clear the
\* cells by resetting otpValue to "".
C27_EmptyReseed ==
    [][(phase = "mounted" /\ type = "otp" /\ lastOp'.name = "setOtpValue"
        /\ otpValue # <<>> /\ otpValue' = <<>>) =>
          otpValues' = otpValues]_vars

\* C27 witness: three cells seeded with "55" and never typed into (no cell
\* was ever focused), then otpValue = "": the cells still hold 5, 5.
C27_Witness ==
    /\ phase = "mounted"
    /\ lastOp.name = "setOtpValue"
    /\ OtpLen = 3
    /\ nativeFocus = -1
    /\ otpValue = <<>>
    /\ otpValues = << <<"5">>, <<"5">>, <<>> >>

====
